---- MODULE Spec2Model ----
(***************************************************************************)
(* Model of routefinder: the DataCompiler (compile_data.py), the CostFunc  *)
(* and RouteCalculater (calculate_route.py) and the Geohash helper         *)
(* (libraries.py).                                                         *)
(*                                                                         *)
(* Python dicts are modelled as sequences of <<key, value>> pairs in       *)
(* insertion order.  Optional values are <<>> (None) or <<v>>.  Node       *)
(* identifiers are strings, so that len() is the real length.  Positions   *)
(* are pairs <<lat, lon>> of integers counted in ticks of 90/2^23 degree,  *)
(* a quarter of the side of a 9-character geohash cell.  Distances and     *)
(* frequencies are integers.                                               *)
(***************************************************************************)
EXTENDS Integers, Sequences, FiniteSets, TLC

(***************************************************************************)
(* Python dict, in insertion order.                                        *)
(***************************************************************************)
DictHas(d, k) == \E i \in 1..Len(d) : d[i][1] = k

DictGet(d, k) == d[CHOOSE i \in 1..Len(d) : d[i][1] = k][2]

DictSet(d, k, v) ==
    IF DictHas(d, k)
    THEN LET i == CHOOSE j \in 1..Len(d) : d[j][1] = k
         IN  SubSeq(d, 1, i - 1) \o << <<k, v>> >> \o SubSeq(d, i + 1, Len(d))
    ELSE Append(d, <<k, v>>)

DictKeys(d) == [i \in 1..Len(d) |-> d[i][1]]

None == <<>>

Some(v) == <<v>>

(***************************************************************************)
(* geolib's encode(lat, lon, 9), called by Geohash.hash.  The latitude range         *)
(* [-90, 90] is [-2^23, 2^23] ticks and the longitude range [-180, 180]    *)
(* is [-2^24, 2^24] ticks; 45 bisections, longitude first, five bits per   *)
(* base-32 character.                                                      *)
(***************************************************************************)
Precision == 9

LatMax == 2^23

LonMax == 2^24

Base32 == << "0", "1", "2", "3", "4", "5", "6", "7", "8", "9", "b", "c",
             "d", "e", "f", "g", "h", "j", "k", "m", "n", "p", "q", "r",
             "s", "t", "u", "v", "w", "x", "y", "z" >>

RECURSIVE encode(_, _, _, _, _, _, _, _, _, _)
encode(lat, lon, latMin, latMax, lonMin, lonMax, evenBit, bit, idx, out) ==
    IF Len(out) >= Precision THEN out
    ELSE LET lonMid == (lonMin + lonMax) \div 2
             latMid == (latMin + latMax) \div 2
             up     == IF evenBit THEN lon >= lonMid ELSE lat >= latMid
             idx2   == idx * 2 + (IF up THEN 1 ELSE 0)
             full   == bit + 1 = 5
         IN  encode(lat, lon,
                    IF ~evenBit /\ up THEN latMid ELSE latMin,
                    IF ~evenBit /\ ~up THEN latMid ELSE latMax,
                    IF evenBit /\ up THEN lonMid ELSE lonMin,
                    IF evenBit /\ ~up THEN lonMid ELSE lonMax,
                    ~evenBit,
                    IF full THEN 0 ELSE bit + 1,
                    IF full THEN 0 ELSE idx2,
                    IF full THEN out \o Base32[idx2 + 1] ELSE out)

geohash_encode(position) ==
    encode(position[1], position[2], -LatMax, LatMax, -LonMax, LonMax,
           TRUE, 0, 0, "")

Abs(n) == IF n < 0 THEN -n ELSE n

\* DataCompiler.get_distance: haversine is a library call; the model keeps
\* what the compiler relies on (a non-negative number, zero for equal
\* positions, symmetric) with the distance counted in ticks.
get_distance(position1, position2) ==
    Abs(position1[1] - position2[1]) + Abs(position1[2] - position2[2])

(***************************************************************************)
(* The input files.  A field that float() parses is Num(v); one it         *)
(* rejects with ValueError is NaN.  A Navaids.txt line is seen field by    *)
(* field through csv.reader (freq = row[2], lat = row[6], lon = row[7])    *)
(* and character by character when the line itself is indexed (c2, c6,    *)
(* c7 are the characters 2, 6 and 7 of the raw line).                      *)
(***************************************************************************)
Num(v) == [ok |-> TRUE, v |-> v]

NaN == [ok |-> FALSE, v |-> 0]

NavRow(freq, lat, lon) ==
    [freq |-> freq, lat |-> lat, lon |-> lon, c2 |-> NaN, c6 |-> NaN, c7 |-> NaN]

AwyRow(name) ==
    [type |-> "A", name |-> name, spos |-> <<0, 0>>, ename |-> "",
     epos |-> <<0, 0>>, dist |-> 0]

SegRow(sname, spos, ename, epos, dist) ==
    [type |-> "S", name |-> sname, spos |-> spos, ename |-> ename,
     epos |-> epos, dist |-> dist]

EmptyRow ==
    [type |-> "", name |-> "", spos |-> <<0, 0>>, ename |-> "",
     epos |-> <<0, 0>>, dist |-> 0]

NodeRow(type, name, pos) == [type |-> type, name |-> name, pos |-> pos]

ApBlock(icao, pos) ==
    [kind |-> "A", icao |-> icao, pos |-> pos, name |-> "", runway |-> "",
     rows |-> <<>>]

ProcBlock(kind, name, runway, rows) ==
    [kind |-> kind, icao |-> "", pos |-> <<0, 0>>, name |-> name,
     runway |-> runway, rows |-> rows]

EmptyBlock ==
    [kind |-> "", icao |-> "", pos |-> <<0, 0>>, name |-> "", runway |-> "",
     rows |-> <<>>]

ProcFile(filename, blocks) == [filename |-> filename, blocks |-> blocks]

posZSFZ == <<0, 0>>
posDST == <<8, 0>>
posLATUX == <<8, 8>>
posPAMVU == <<8, 16>>
posBK == <<8, 40>>
posZSPD == <<0, 44>>
posZSSS == <<4, 20>>
posNEWPT == <<16, 20>>
posZSAM == <<40, 0>>
posZSF == <<0, 8>>

\* asdata: ZSFZ -SID-> DST -B221-> LATUX -B221-> PAMVU -V74-> BK -STAR-> ZSPD,
\* and a third airport ZSSS with a STAR from PAMVU and a SID to BK that would
\* shorten the route if STAR edges into other airports were usable.
MainData ==
    [navaids |-> << NavRow(Num(1135), Num(8), Num(0)) >>,
     ats |-> << AwyRow("B221"),
                SegRow("DST", posDST, "LATUX", posLATUX, 8),
                SegRow("LATUX", posLATUX, "PAMVU", posPAMVU, 8),
                EmptyRow,
                AwyRow("V74"),
                SegRow("PAMVU", posPAMVU, "BK", posBK, 40) >>,
     proc |-> << ProcFile("ZSFZ.txt",
                    << ApBlock("ZSFZ", posZSFZ),
                       ProcBlock("SID", "DST1D", "03",
                          << NodeRow("CA", "", posZSFZ),
                             NodeRow("DF", "DST", posDST) >>),
                       EmptyBlock,
                       ProcBlock("SID", "DST2D", "21",
                          << NodeRow("DF", "DST", posDST) >>),
                       ProcBlock("SID", "VEC1D", "03",
                          << NodeRow("VM", "", posZSFZ) >>) >>),
                 ProcFile("README.md", << ProcBlock("SID", "X", "00", <<>>) >>),
                 ProcFile("ZSPD.txt",
                    << ApBlock("ZSPD", posZSPD),
                       ProcBlock("STAR", "BK1A", "35",
                          << NodeRow("IF", "BK", <<9, 41>>),
                             NodeRow("TF", "PD001", <<4, 44>>) >>) >>),
                 ProcFile("ZSSS.txt",
                    << ApBlock("ZSSS", posZSSS),
                       ProcBlock("STAR", "PAM1A", "18",
                          << NodeRow("IF", "PAMVU", posPAMVU) >>),
                       ProcBlock("SID", "BK1D", "18",
                          << NodeRow("DF", "BK", posBK) >>) >>) >>]

\* asdata_alt: the same two airports joined by the airway W1 through NEWPT
\* and by the longer airway W2; the segment DST -> NEWPT is also listed
\* under W0 before; ZSPD has two STARs that start at a fix named BK, at two
\* positions; W1 ends at the navaid PUD, which stands at the position of the
\* airport ZSPD; a third airport has the three-character code ZSF and a
\* SID to DST; its Navaids.txt is empty.
AltData ==
    [navaids |-> << >>,
     ats |-> << AwyRow("W0"),
                SegRow("DST", posDST, "NEWPT", posNEWPT, 9),
                AwyRow("W2"),
                SegRow("DST", posDST, "BK", posBK, 20),
                AwyRow("W1"),
                SegRow("DST", posDST, "NEWPT", posNEWPT, 4),
                SegRow("NEWPT", posNEWPT, "BK", posBK, 4),
                SegRow("BK", posBK, "PUD", posZSPD, 3) >>,
     proc |-> << ProcFile("ZSFZ.txt",
                    << ApBlock("ZSFZ", posZSFZ),
                       ProcBlock("SID", "DST1D", "03",
                          << NodeRow("DF", "DST", posDST) >>) >>),
                 ProcFile("ZSPD.txt",
                    << ApBlock("ZSPD", posZSPD),
                       ProcBlock("STAR", "BK1A", "35",
                          << NodeRow("IF", "BK", posBK) >>),
                       ProcBlock("STAR", "BK2A", "17",
                          << NodeRow("IF", "BK", <<8, 48>>) >>) >>),
                 ProcFile("ZSF.txt",
                    << ApBlock("ZSF", posZSF),
                       ProcBlock("SID", "DST3D", "09",
                          << NodeRow("DF", "DST", posDST) >>) >>) >>]

\* asdata_bad: ATS.txt has a segment row before any airway header, and the
\* second procedure file has a SID block before its airport header.
BadData ==
    [navaids |-> << >>,
     ats |-> << SegRow("DST", posDST, "LATUX", posLATUX, 8),
                AwyRow("B221") >>,
     proc |-> << ProcFile("ZSAM.txt",
                    << ApBlock("ZSAM", posZSAM),
                       ProcBlock("SID", "DST1D", "05",
                          << NodeRow("DF", "DST", posDST) >>) >>),
                 ProcFile("ZSXX.txt",
                    << ProcBlock("SID", "DST1D", "05",
                          << NodeRow("DF", "DST", posDST) >>),
                       ApBlock("ZSXX", posZSAM) >>) >>]

Paths == {"asdata", "asdata_alt", "asdata_bad"}

Files(asdata_path) ==
    CASE asdata_path = "asdata" -> MainData
      [] asdata_path = "asdata_alt" -> AltData
      [] OTHER -> BadData

SeqRange(seq) == {seq[i] : i \in 1..Len(seq)}

\* The positions written in the files, and their codes, computed once.
FilePositions ==
    UNION { {<<r.lat.v, r.lon.v>> : r \in SeqRange(Files(p).navaids)}
            \cup UNION {{r.spos, r.epos} : r \in SeqRange(Files(p).ats)}
            \cup UNION { UNION { {b.pos} \cup {n.pos : n \in SeqRange(b.rows)}
                                : b \in SeqRange(f.blocks) }
                        : f \in SeqRange(Files(p).proc) }
          : p \in Paths }

\* The valid positions hashed: latitudes and longitudes (in ticks) up to
\* NearTicks from the least value, from zero and from the greatest value,
\* and two in between.
NearTicks == 4

Near(n) == (n - NearTicks)..(n + NearTicks)

Latitudes ==
    {lat \in Near(-LatMax) \cup Near(0) \cup Near(LatMax)
              \cup {-2796203, 4194301} : -LatMax <= lat /\ lat <= LatMax}

Longitudes ==
    {lon \in Near(-LonMax) \cup Near(0) \cup Near(LonMax)
              \cup {-11184811, 8388611} : -LonMax <= lon /\ lon <= LonMax}

\* The codes of the positions of the files and of the positions hashed
\* directly, computed once.
HashedPositions ==
    {p : p \in FilePositions \cup {<<lat, lon>> : lat \in Latitudes, lon \in Longitudes}}

EncodedPositions == [position \in HashedPositions |-> geohash_encode(position)]

Geohash_hash(position) ==
    IF position \in HashedPositions THEN EncodedPositions[position]
    ELSE geohash_encode(position)

(***************************************************************************)
(* dijkstar's Graph.add_edge on the graph data (dict of dicts): insert or  *)
(* overwrite the edge u -> v, no reverse edge.                             *)
(***************************************************************************)
\* A faulty variant of add_edge that also inserts the reverse edge; C19 must
\* tell it from add_edge.
add_edge_both_ways(data, u, v, edge) ==
    LET one == DictSet(data, u,
                   DictSet(IF DictHas(data, u) THEN DictGet(data, u) ELSE <<>>,
                           v, edge))
    IN  DictSet(one, v,
            DictSet(IF DictHas(one, v) THEN DictGet(one, v) ELSE <<>>, u, edge))

add_edge(data, u, v, edge) ==
    DictSet(data, u, DictSet(IF DictHas(data, u) THEN DictGet(data, u) ELSE <<>>,
                             v, edge))

HasEdge(data, u, v) == DictHas(data, u) /\ DictHas(DictGet(data, u), v)

GetEdge(data, u, v) == DictGet(DictGet(data, u), v)

endswith(str, suffix) ==
    /\ Len(str) >= Len(suffix)
    /\ SubSeq(str, Len(str) - Len(suffix) + 1, Len(str)) = suffix

(***************************************************************************)
(* DataCompiler.read_navaids, lines 138-140: the loop over the lines.      *)
(* With log the rows come from csv.reader; without it the loop iterates    *)
(* over the raw lines, so row[i] is a character.  Returns the frequency    *)
(* map and "ok" or the exception that stopped the loop.                    *)
(***************************************************************************)
RECURSIVE navaids_loop(_, _, _, _)
navaids_loop(rows, i, log, navaids) ==
    IF i > Len(rows) THEN [navaid_frequency |-> navaids, err |-> "ok"]
    ELSE LET lat  == IF log THEN rows[i].lat ELSE rows[i].c6
             lon  == IF log THEN rows[i].lon ELSE rows[i].c7
             freq == IF log THEN rows[i].freq ELSE rows[i].c2
         IN  IF ~lat.ok \/ ~lon.ok \/ ~freq.ok
             THEN [navaid_frequency |-> navaids, err |-> "ValueError"]
             ELSE navaids_loop(rows, i + 1, log,
                      DictSet(navaids,
                              Geohash_hash(<<lat.v, lon.v>>), freq.v))

\* The frequency recorded for a hashed position, or None.
frequency_of(navaids, hashed_position) ==
    IF DictHas(navaids, hashed_position)
    THEN Some(DictGet(navaids, hashed_position))
    ELSE None

HashedNodeInfo(name, frequency) == [name |-> name, frequency |-> frequency]

(***************************************************************************)
(* DataCompiler.read_edge, lines 158-200: the loop over the rows of        *)
(* ATS.txt.  d holds graph and node_info; edgename is None or Some(name).  *)
(***************************************************************************)
\* A faulty variant of ats_corrupted that raises nothing; C22 must tell it
\* from ats_corrupted.
ats_corrupted_unnoticed(d) ==
    [graph |-> d.graph, node_info |-> d.node_info, err |-> "ok"]

\* Lines 165-166: a segment row while edgename is None raises
\* DataCorruptionError; the loop over the rows ends.
ats_corrupted(d) ==
    [graph |-> d.graph, node_info |-> d.node_info,
     err |-> "DataCorruptionError"]

RECURSIVE edge_loop(_, _, _, _, _)
edge_loop(rows, i, edgename, navaids, d) ==
    IF i > Len(rows) THEN [graph |-> d.graph, node_info |-> d.node_info, err |-> "ok"]
    ELSE LET row == rows[i] IN
         IF row.type = "" THEN edge_loop(rows, i + 1, edgename, navaids, d)
         ELSE IF row.type = "A"
         THEN edge_loop(rows, i + 1, Some(row.name), navaids, d)
         ELSE IF row.type = "S"
         THEN IF edgename = None
              THEN ats_corrupted(d)
              ELSE LET start_h == Geohash_hash(row.spos)
                       end_h   == Geohash_hash(row.epos)
                       g2 == add_edge(d.graph, start_h, end_h,
                                      <<row.dist, edgename[1]>>)
                       n1 == DictSet(d.node_info, start_h,
                                HashedNodeInfo(row.name,
                                    frequency_of(navaids, start_h)))
                       n2 == DictSet(n1, end_h,
                                HashedNodeInfo(row.ename,
                                    frequency_of(navaids, end_h)))
                   IN  edge_loop(rows, i + 1, edgename, navaids,
                                 [graph |-> g2, node_info |-> n2])
         ELSE edge_loop(rows, i + 1, edgename, navaids, d)

(***************************************************************************)
(* DataCompiler.read_airport.                                              *)
(***************************************************************************)
\* A faulty variant of invaild_procedure_type without VM; C20 must tell it
\* from invaild_procedure_type.
invaild_procedure_type_without_VM ==
    {"CA", "CD", "CI", "CR", "VA", "VD", "VI", "VR"}

invaild_procedure_type == {"CA", "CD", "CI", "CR", "VA", "VD", "VI", "VM", "VR"}

\* Lines 260-280: the nodes of a SID/STAR block, leg rows without a fix left out.
RECURSIVE proc_nodes_of(_, _, _)
proc_nodes_of(rows, i, navaids) ==
    IF i > Len(rows) THEN <<>>
    ELSE LET rest == proc_nodes_of(rows, i + 1, navaids) IN
         IF rows[i].type = "SID" \/ rows[i].type = "STAR"
            \/ rows[i].type \in invaild_procedure_type
         THEN rest
         ELSE << [name |-> rows[i].name,
                  position |-> rows[i].pos,
                  frequency |-> frequency_of(navaids,
                                             Geohash_hash(rows[i].pos))] >>
              \o rest

AirportProcedure(name, runway, nodes) ==
    [name |-> name, runway |-> runway, nodes |-> nodes]

\* A faulty variant of procedures_of that starts a new list for every
\* procedure; C16 must tell it from procedures_of.
procedures_of_reset(group, name) == <<>>

\* Lines 288, 298, 309 (320, 330, 341): the list of the group of name, new
\* when the name is not yet a key.
procedures_of(group, name) ==
    IF DictHas(group, name) THEN DictGet(group, name) ELSE <<>>

\* Lines 283-347: a SID/STAR block with proc_nodes, for the airport of f.
\* f holds graph, node_info, ap_icao, ap_position, ap_sid, ap_star.
register_procedure(f, proc_type, proc_name, proc_runway, proc_nodes) ==
    IF Len(proc_nodes) = 0 THEN f
    ELSE LET node    == IF proc_type = "SID" THEN proc_nodes[Len(proc_nodes)]
                        ELSE proc_nodes[1]
             group   == IF proc_type = "SID" THEN f.ap_sid ELSE f.ap_star
             hashed  == Geohash_hash(node.position)
             isNew   == ~DictHas(group, node.name)
             ninfo   == IF isNew /\ ~DictHas(f.node_info, hashed)
                        THEN DictSet(f.node_info, hashed,
                                     HashedNodeInfo(node.name, node.frequency))
                        ELSE f.node_info
             edge    == <<get_distance(f.ap_position, node.position), proc_type>>
             g2      == IF ~isNew THEN f.graph
                        ELSE IF proc_type = "SID"
                        THEN add_edge(f.graph, f.ap_icao[1], hashed, edge)
                        ELSE add_edge(f.graph, hashed, f.ap_icao[1], edge)
             before  == procedures_of(group, node.name)
             group2  == DictSet(group, node.name,
                           Append(before,
                                  AirportProcedure(proc_name, proc_runway,
                                                   proc_nodes)))
         IN  [f EXCEPT !.graph = g2, !.node_info = ninfo,
                       !.ap_sid = IF proc_type = "SID" THEN group2 ELSE @,
                       !.ap_star = IF proc_type = "STAR" THEN group2 ELSE @]

\* A faulty variant of proc_corrupted that raises nothing; C21 must tell it
\* from proc_corrupted.
proc_corrupted_unnoticed(f) == f

\* Lines 257-258: a SID/STAR block while ap_icao is None raises
\* DataCorruptionError; the loop over the blocks ends.
proc_corrupted(f) == [f EXCEPT !.err = "DataCorruptionError"]

\* Lines 243-349: the loop over the blocks of one file.
RECURSIVE block_loop(_, _, _, _)
block_loop(blocks, i, navaids, f) ==
    IF i > Len(blocks) THEN f
    ELSE LET block == blocks[i] IN
         IF block.kind = "" THEN block_loop(blocks, i + 1, navaids, f)
         ELSE IF block.kind = "A"
         THEN block_loop(blocks, i + 1, navaids,
                         [f EXCEPT !.ap_icao = Some(block.icao),
                                   !.ap_position = block.pos])
         ELSE IF block.kind = "SID" \/ block.kind = "STAR"
         THEN IF f.ap_icao = None
              THEN proc_corrupted(f)
              ELSE block_loop(blocks, i + 1, navaids,
                      register_procedure(f, block.kind, block.name, block.runway,
                          proc_nodes_of(block.rows, 1, navaids)))
         ELSE block_loop(blocks, i + 1, navaids, f)

AirportInfo(position, sid, star) ==
    [position |-> position, sid |-> sid, star |-> star]

\* Lines 223-359: the loop over the files of proc/.  d holds graph,
\* node_info and airport_info.
\* Lines 350-359: d after the blocks of one file left f; the airport of the
\* file, if it named one, is registered.
airport_registered(d, f) ==
    IF f.ap_icao = None
    THEN [graph |-> f.graph, node_info |-> f.node_info,
          airport_info |-> d.airport_info]
    ELSE [graph |-> f.graph,
          node_info |-> DictSet(f.node_info, Geohash_hash(f.ap_position),
                                HashedNodeInfo(f.ap_icao[1], None)),
          airport_info |-> DictSet(d.airport_info, f.ap_icao[1],
                                   AirportInfo(f.ap_position, f.ap_sid,
                                               f.ap_star))]

RECURSIVE airport_loop(_, _, _, _)
RECURSIVE file_done(_, _, _, _, _)
file_done(files, i, navaids, d, f) ==
    IF f.err # "ok"
    THEN [graph |-> f.graph, node_info |-> f.node_info,
          airport_info |-> d.airport_info, err |-> f.err]
    ELSE airport_loop(files, i + 1, navaids, airport_registered(d, f))

airport_loop(files, i, navaids, d) ==
    IF i > Len(files)
    THEN [graph |-> d.graph, node_info |-> d.node_info,
          airport_info |-> d.airport_info, err |-> "ok"]
    ELSE IF ~endswith(files[i].filename, ".txt")
    THEN airport_loop(files, i + 1, navaids, d)
    ELSE file_done(files, i, navaids, d,
                   block_loop(files[i].blocks, 1, navaids,
                      [graph |-> d.graph, node_info |-> d.node_info,
                       ap_icao |-> None, ap_position |-> <<0, 0>>,
                       ap_sid |-> <<>>, ap_star |-> <<>>, err |-> "ok"]))

(***************************************************************************)
(* Geohash.unhash: geolib's decode, the centre of the cell of the code.    *)
(* A 9-character cell is 4 ticks wide, so the centre is a whole tick; the  *)
(* rounding to 6 decimal places moves it by less than a twentieth of a     *)
(* tick and is not represented.                                            *)
(***************************************************************************)
Base32Index(ch) == CHOOSE k \in 1..Len(Base32) : Base32[k] = ch

\* bit b (1 = most significant of 5) of the base-32 digit n
BitOf(n, b) == (n \div (2^(5 - b))) % 2

RECURSIVE decode(_, _, _, _, _, _, _, _)
decode(code, j, b, evenBit, latMin, latMax, lonMin, lonMax) ==
    IF j > Len(code)
    THEN <<(latMin + latMax) \div 2, (lonMin + lonMax) \div 2>>
    ELSE LET up     == BitOf(Base32Index(SubSeq(code, j, j)) - 1, b) = 1
             lonMid == (lonMin + lonMax) \div 2
             latMid == (latMin + latMax) \div 2
         IN  decode(code,
                    IF b = 5 THEN j + 1 ELSE j,
                    IF b = 5 THEN 1 ELSE b + 1,
                    ~evenBit,
                    IF ~evenBit /\ up THEN latMid ELSE latMin,
                    IF ~evenBit /\ ~up THEN latMid ELSE latMax,
                    IF evenBit /\ up THEN lonMid ELSE lonMin,
                    IF evenBit /\ ~up THEN lonMid ELSE lonMax)

geohash_decode(hashed_position) ==
    decode(hashed_position, 1, 1, TRUE, -LatMax, LatMax, -LonMax, LonMax)

FileCodes == {EncodedPositions[position] : position \in HashedPositions}

DecodedCodes == [code \in FileCodes |-> geohash_decode(code)]

\* A faulty variant of Geohash_unhash that returns (lon, lat); C14 must tell
\* it from Geohash_unhash.
Geohash_unhash_swapped(hashed_position) ==
    <<geohash_decode(hashed_position)[2], geohash_decode(hashed_position)[1]>>

Geohash_unhash(hashed_position) ==
    IF hashed_position \in FileCodes THEN DecodedCodes[hashed_position]
    ELSE geohash_decode(hashed_position)

(***************************************************************************)
(* Costs: non-negative integers and float("inf").                          *)
(***************************************************************************)
Inf == -1

CostAdd(a, b) == IF a = Inf \/ b = Inf THEN Inf ELSE a + b

CostLess(a, b) == a # Inf /\ (b = Inf \/ a < b)

(***************************************************************************)
(* CostFunc.                                                               *)
(***************************************************************************)
\* CostFunc.__init__: the instance, or the error raised.
CostFunc_init(orig, dest, sid_node, star_node) ==
    IF Len(orig) # 4 /\ sid_node # None
    THEN [err |-> "MiscellaneousError", dest |-> dest, dest_is_airport |-> FALSE,
          sid_node |-> None, star_node |-> None]
    ELSE IF Len(dest) # 4 /\ star_node # None
    THEN [err |-> "MiscellaneousError", dest |-> dest, dest_is_airport |-> FALSE,
          sid_node |-> None, star_node |-> None]
    ELSE [err |-> "ok", dest |-> dest, dest_is_airport |-> (Len(dest) = 4),
          sid_node |-> sid_node, star_node |-> star_node]

\* A faulty variant of CostFunc_call without the test of line 100, which
\* lets a STAR edge into any airport through; C7 must tell it from
\* CostFunc_call.
CostFunc_call_any_star(self, prev_node, next_node, edge) ==
    LET distance == edge[1]
        edgename == edge[2]
    IN  IF edgename = "SID" /\ self.sid_node # None
        THEN IF next_node # self.sid_node[1] THEN Inf ELSE distance
        ELSE IF edgename = "STAR"
        THEN IF ~self.dest_is_airport THEN Inf
             ELSE IF self.star_node # None /\ self.star_node[1] # prev_node THEN Inf
             ELSE distance
        ELSE distance

\* CostFunc.__call__(prev_node, next_node, edge, prev_edge)
CostFunc_call(self, prev_node, next_node, edge) ==
    LET distance == edge[1]
        edgename == edge[2]
    IN  IF edgename = "SID" /\ self.sid_node # None
        THEN IF next_node # self.sid_node[1] THEN Inf ELSE distance
        ELSE IF edgename = "STAR"
        THEN IF ~self.dest_is_airport THEN Inf
             ELSE IF next_node # self.dest THEN Inf
             ELSE IF self.star_node # None /\ self.star_node[1] # prev_node THEN Inf
             ELSE distance
        ELSE distance

(***************************************************************************)
(* dijkstar.find_path(graph, s, d, cost_func=...), called at lines         *)
(* 201-203: single_source_shortest_paths (a heap of (cost, counter, node), *)
(* neighbours visited in dict order) and then the path read back from the  *)
(* predecessor list.  An edge of infinite cost is relaxed like any other,  *)
(* so d can be reached at infinite total cost.                             *)
(***************************************************************************)
\* A faulty variant of heappop that takes the entry pushed last; C15 must
\* tell it from heappop.
heappop_newest(visit_queue) ==
    CHOOSE q \in visit_queue : \A r \in visit_queue : r[2] <= q[2]

heappop(visit_queue) ==
    CHOOSE q \in visit_queue :
        \A r \in visit_queue :
            r = q \/ CostLess(q[1], r[1]) \/ (q[1] = r[1] /\ q[2] < r[2])

\* The loop over the neighbours of u (in dict order).
RECURSIVE relax(_, _, _, _, _)
relax(self, u, neighbors, j, st) ==
    IF j > Len(neighbors) THEN st
    ELSE LET v == neighbors[j][1]
             e == neighbors[j][2]
         IN  IF v \in st.visited THEN relax(self, u, neighbors, j + 1, st)
             ELSE LET cost_of_e == CostFunc_call(self, u, v, e)
                      new_cost  == CostAdd(st.costs[u], cost_of_e)
                  IN  IF v \notin DOMAIN st.costs \/ CostLess(new_cost, st.costs[v])
                      THEN relax(self, u, neighbors, j + 1,
                             [st EXCEPT
                                !.costs = (v :> new_cost) @@ st.costs,
                                !.predecessors = (v :> <<Some(u), e, cost_of_e>>)
                                                 @@ st.predecessors,
                                !.visit_queue = @ \cup {<<new_cost, st.counter, v>>},
                                !.counter = @ + 1])
                      ELSE relax(self, u, neighbors, j + 1, st)

RECURSIVE single_source_shortest_paths(_, _, _, _)
single_source_shortest_paths(data, d, self, st) ==
    IF st.visit_queue = {} THEN st
    ELSE LET q    == heappop(st.visit_queue)
             u    == q[3]
             rest == [st EXCEPT !.visit_queue = @ \ {q}]
         IN  IF u = d THEN rest
             ELSE IF u \in st.visited
             THEN single_source_shortest_paths(data, d, self, rest)
             ELSE LET neighbors == IF DictHas(data, u) THEN DictGet(data, u)
                                   ELSE <<>>
                      seen      == [rest EXCEPT !.visited = @ \cup {u}]
                  IN  single_source_shortest_paths(data, d, self,
                          relax(self, u, neighbors, 1, seen))

\* extract_shortest_path_from_predecessor_list: nodes, edges and costs from
\* s to d.
RECURSIVE extract_path(_, _, _)
extract_path(predecessors, u, acc) ==
    LET p == predecessors[u] IN
    IF p[1] = None THEN acc
    ELSE extract_path(predecessors, p[1][1],
             [nodes |-> <<p[1][1]>> \o acc.nodes,
              edges |-> <<p[2]>> \o acc.edges,
              costs |-> <<p[3]>> \o acc.costs])

RECURSIVE CostSum(_)
CostSum(costs) ==
    IF Len(costs) = 0 THEN 0 ELSE CostAdd(costs[1], CostSum(Tail(costs)))

find_path(data, s, d, self) ==
    LET st == single_source_shortest_paths(data, d, self,
                  [costs |-> (s :> 0),
                   predecessors |-> (s :> <<None, <<0, "">>, 0>>),
                   visit_queue |-> {<<0, 0, s>>},
                   visited |-> {},
                   counter |-> 1])
    IN  IF d \notin DOMAIN st.costs
        THEN [err |-> "NoPathError", nodes |-> <<>>, edges |-> <<>>,
              costs |-> <<>>, total_cost |-> 0]
        ELSE LET path == extract_path(st.predecessors, d,
                             [nodes |-> <<d>>, edges |-> <<>>, costs |-> <<>>])
             IN  [err |-> "ok", nodes |-> path.nodes, edges |-> path.edges,
                  costs |-> path.costs, total_cost |-> CostSum(path.costs)]

(***************************************************************************)
(* RouteCalculater.calculate.                                              *)
(***************************************************************************)
\* A faulty variant of NodeInfo that loses the frequency; C18 must tell it
\* from NodeInfo.
NodeInfo_without_frequency(position, name, frequency) ==
    [position |-> position, name |-> name, frequency |-> None]

NodeInfo(position, name, frequency) ==
    [position |-> position, name |-> name, frequency |-> frequency]

\* Lines 211-248: the loop over path.nodes.  acc holds display_route,
\* prev_edgename, full_nodes and err; an edge name is Some(name), the one
\* after the last node is None.
\* A faulty variant of label_changed that opens a span at every node; C9
\* must tell it from label_changed.
label_changed_always(edgename, prev_edgename) == TRUE

\* A faulty variant of label_changed that never opens a span; C13 must tell
\* it from label_changed.
label_changed_never(edgename, prev_edgename) == FALSE

\* Line 236: the edge after the node does not carry the label of the span.
label_changed(edgename, prev_edgename) == edgename # prev_edgename

RECURSIVE route_loop(_, _, _, _, _, _)
route_loop(info_data, orig, dest, path, i, acc) ==
    IF i > Len(path.nodes) THEN acc
    ELSE LET nodename == path.nodes[i]
             edgename == IF i <= Len(path.edges) THEN Some(path.edges[i][2])
                         ELSE None
             isAirport == Len(nodename) = 4 /\ nodename \in {orig, dest}
             isMarker  == (Len(nodename) = 4 /\ nodename = "STAR") \/ nodename = "SID"
             isHashed  == Len(nodename) = 9 /\ ~isMarker
         IN  IF ~isAirport /\ ~isMarker
                /\ (~isHashed \/ ~DictHas(info_data.nodes, nodename))
             THEN [acc EXCEPT !.err = "KeyError"]
             ELSE LET shown == IF isHashed
                               THEN DictGet(info_data.nodes, nodename).name
                               ELSE nodename
                      node_position ==
                          IF isAirport
                          THEN DictGet(info_data.airports, nodename).position
                          ELSE IF isHashed THEN Geohash_unhash(nodename)
                          ELSE <<0, 0>>
                      node_frequency ==
                          IF isHashed
                          THEN DictGet(info_data.nodes, nodename).frequency
                          ELSE None
                      changed == label_changed(edgename, acc.prev_edgename)
                      disp == IF ~changed THEN acc.display_route
                              ELSE IF edgename = None
                              THEN Append(acc.display_route, shown)
                              ELSE acc.display_route \o <<shown, edgename[1]>>
                      prev == IF changed /\ edgename # None THEN edgename
                              ELSE acc.prev_edgename
                      full == IF shown \in {"SID", "STAR"} THEN acc.full_nodes
                              ELSE Append(acc.full_nodes,
                                     NodeInfo(node_position, shown, node_frequency))
                  IN  route_loop(info_data, orig, dest, path, i + 1,
                          [acc EXCEPT !.display_route = disp,
                                      !.prev_edgename = prev,
                                      !.full_nodes = full])

\* A faulty variant of airport_not_found that looks up orig only; C5 must
\* tell it from airport_not_found.
airport_not_found_orig_only(info_data, orig, dest) ==
    ~DictHas(info_data.airports, orig)

\* Lines 194-197.
airport_not_found(info_data, orig, dest) ==
    ~DictHas(info_data.airports, orig) \/ ~DictHas(info_data.airports, dest)

NoRoute(status, searched) ==
    [status |-> status, searched |-> searched, display_route |-> <<>>,
     distance |-> 0, nodes_info |-> <<>>, sid |-> <<>>, star |-> <<>>,
     path_nodes |-> <<>>, path_edges |-> <<>>]

\* calculate(orig, dest) on the graph data and info data of an instance:
\* the RouteResult (status "ok") or the exception raised.  searched tells
\* whether find_path was called; path_nodes and path_edges are path.nodes
\* and path.edges.
calculate(data, info_data, orig, dest) ==
    IF airport_not_found(info_data, orig, dest)
    THEN NoRoute("NoResultError", FALSE)
    ELSE LET self == CostFunc_init(orig, dest, None, None)
             path == find_path(data, orig, dest, self)
         IN  IF path.err # "ok" \/ path.total_cost = Inf
             THEN NoRoute("NoResultError", TRUE)
             ELSE LET r == route_loop(info_data, orig, dest, path, 1,
                               [display_route |-> <<>>, prev_edgename |-> Some(""),
                                full_nodes |-> <<>>, err |-> "ok"])
                  IN  IF r.err # "ok"
                      THEN [NoRoute(r.err, TRUE) EXCEPT
                               !.path_nodes = path.nodes,
                               !.path_edges = path.edges]
                      ELSE [status |-> "ok", searched |-> TRUE,
                            display_route |-> r.display_route,
                            distance |-> path.total_cost,
                            nodes_info |-> r.full_nodes,
                            sid |-> DictGet(info_data.airports, orig).sid,
                            star |-> DictGet(info_data.airports, dest).star,
                            path_nodes |-> path.nodes,
                            path_edges |-> path.edges]

(***************************************************************************)
(* State.                                                                  *)
(*                                                                         *)
(* graph, node_info, airport_info and navaid_frequency are the objects     *)
(* created once in the class body of DataCompiler (lines 54-57): every     *)
(* instance mutates the same four objects.  The three flags are class      *)
(* attributes too, but "self._x_read = True" makes them instance           *)
(* attributes, so they are kept per instance in compilers.                 *)
(*                                                                         *)
(* rc_graph is the _data of the one Graph created in the class body of     *)
(* RouteCalculater (line 119); __init__ rebinds it for every instance.     *)
(* It and the info_data of an instance are references: "live" is the       *)
(* data of DataCompiler in this process, a path is the data unpickled      *)
(* from a compilation of that path.                                        *)
(***************************************************************************)
VARIABLES graph, node_info, airport_info, navaid_frequency, compilers,
          rc_graph, calculaters, result

vars == <<graph, node_info, airport_info, navaid_frequency, compilers,
          rc_graph, calculaters, result>>

NumCompilers == 2

NumCalculaters == 2

CompilerIds == 1..NumCompilers

CalculaterIds == 1..NumCalculaters


NoCompiler ==
    [made |-> FALSE, asdata_path |-> "", log |-> FALSE, navaids_read |-> FALSE,
     edge_read |-> FALSE, airport_read |-> FALSE]

\* DataCompiler.__init__, lines 73-74.
NewCompiler(asdata_path, log) ==
    [NoCompiler EXCEPT !.made = TRUE, !.asdata_path = asdata_path, !.log = log]

NoCalculater == [made |-> FALSE, info_data |-> "none"]

Result(op, inst, args, status, value) ==
    [op |-> op, inst |-> inst, args |-> args, status |-> status, value |-> value]

Init ==
    /\ graph = <<>>
    /\ node_info = <<>>
    /\ airport_info = <<>>
    /\ navaid_frequency = <<>>
    /\ compilers = [i \in CompilerIds |-> NoCompiler]
    /\ rc_graph = "none"
    /\ calculaters = [k \in CalculaterIds |-> NoCalculater]
    /\ result = Result("", 0, <<>>, "", <<>>)

(***************************************************************************)
(* The phases as functions of the world w: the four shared objects and     *)
(* the instance self.  Each returns the world after the call and the       *)
(* status: "ok" or the exception raised.                                   *)
(***************************************************************************)
World(self) ==
    [graph |-> graph, node_info |-> node_info, airport_info |-> airport_info,
     navaid_frequency |-> navaid_frequency, self |-> self, status |-> "ok"]

\* the world after the loop of read_navaids returned r
navaids_done(w, r) ==
    [w EXCEPT !.navaid_frequency = r.navaid_frequency,
              !.self.navaids_read = (r.err = "ok"),
              !.status = r.err]

\* A faulty variant of read_navaids without the test of line 128; C2 must
\* tell it from read_navaids.
read_navaids_again(w) ==
    navaids_done(w, navaids_loop(Files(w.self.asdata_path).navaids, 1,
                                 w.self.log, w.navaid_frequency))

read_navaids(w) ==
    IF w.self.navaids_read THEN [w EXCEPT !.status = "AlreadyReadError"]
    ELSE navaids_done(w, navaids_loop(Files(w.self.asdata_path).navaids, 1,
                                      w.self.log, w.navaid_frequency))

\* the world after the loop of read_edge returned r
edge_done(w, r) ==
    [w EXCEPT !.graph = r.graph,
              !.node_info = r.node_info,
              !.self.edge_read = (r.err = "ok"),
              !.status = r.err]

\* A faulty variant of read_edge without the test of line 147; C3 must tell
\* it from read_edge.
read_edge_any_order(w) ==
    IF w.self.edge_read THEN [w EXCEPT !.status = "AlreadyReadError"]
    ELSE edge_done(w, edge_loop(Files(w.self.asdata_path).ats, 1, None,
                                w.navaid_frequency,
                                [graph |-> w.graph, node_info |-> w.node_info]))

read_edge(w) ==
    IF w.self.edge_read THEN [w EXCEPT !.status = "AlreadyReadError"]
    ELSE IF ~w.self.navaids_read THEN [w EXCEPT !.status = "ReadOrderError"]
    ELSE edge_done(w, edge_loop(Files(w.self.asdata_path).ats, 1, None,
                                w.navaid_frequency,
                                [graph |-> w.graph, node_info |-> w.node_info]))

\* A faulty variant of airport_done that marks the phase completed also
\* when the loop stopped with an error; C26 must tell it from airport_done.
airport_done_always_read(w, r) ==
    [w EXCEPT !.graph = r.graph,
              !.node_info = r.node_info,
              !.airport_info = r.airport_info,
              !.self.airport_read = TRUE,
              !.status = r.err]

\* the world after the loop of read_airport returned r
airport_done(w, r) ==
    [w EXCEPT !.graph = r.graph,
              !.node_info = r.node_info,
              !.airport_info = r.airport_info,
              !.self.airport_read = (r.err = "ok"),
              !.status = r.err]

read_airport(w) ==
    IF w.self.airport_read THEN [w EXCEPT !.status = "AlreadyReadError"]
    ELSE airport_done(w, airport_loop(Files(w.self.asdata_path).proc, 1,
                                      w.navaid_frequency,
                                      [graph |-> w.graph,
                                       node_info |-> w.node_info,
                                       airport_info |-> w.airport_info]))

\* DataCompiler.compile: the three phases, stopping at the first exception.
then_read_edge(w) == IF w.status # "ok" THEN w ELSE read_edge(w)

then_read_airport(w) == IF w.status # "ok" THEN w ELSE read_airport(w)

compile(w) == then_read_airport(then_read_edge(read_navaids(w)))

\* compile_data's __main__ (lines 371-377) run in a fresh interpreter on a
\* path: what it pickles, or ok = FALSE when compile stops with an error.
FreshWorld(self) ==
    [graph |-> <<>>, node_info |-> <<>>, airport_info |-> <<>>,
     navaid_frequency |-> <<>>, self |-> self, status |-> "ok"]

Pickled(w) ==
    [ok |-> w.status = "ok", graph |-> w.graph,
     info |-> [airports |-> w.airport_info, nodes |-> w.node_info]]

Compiled(asdata_path) ==
    Pickled(compile(FreshWorld(NewCompiler(asdata_path, TRUE))))

Pickles == [p \in Paths |-> Compiled(p)]

PickledPaths == {p \in Paths : Pickles[p].ok}

GraphOf(ref) ==
    IF ref = "none" THEN <<>>
    ELSE IF ref = "live" THEN graph
    ELSE Pickles[ref].graph

InfoOf(ref) ==
    IF ref = "live" THEN [airports |-> airport_info, nodes |-> node_info]
    ELSE Pickles[ref].info

\* A faulty variant of get_graph_data that needs one phase only; C1 must
\* tell it from get_graph_data.
get_graph_data_either(self) ==
    IF ~self.edge_read /\ ~self.airport_read
    THEN [status |-> "DataNotReadyError", value |-> <<>>]
    ELSE [status |-> "ok", value |-> graph]

get_graph_data(self) ==
    IF ~self.edge_read \/ ~self.airport_read
    THEN [status |-> "DataNotReadyError", value |-> <<>>]
    ELSE [status |-> "ok", value |-> graph]

get_info_data(self) ==
    IF ~self.edge_read \/ ~self.airport_read
    THEN [status |-> "DataNotReadyError", value |-> <<>>]
    ELSE [status |-> "ok",
          value |-> <<airport_info, node_info>>]

(***************************************************************************)
(* Actions: one per call.  result records the call and its outcome.        *)
(***************************************************************************)
\* DataCompiler(asdata_path, log): a new instance; ids are handed out in order.
DataCompiler_init(i, asdata_path, log) ==
    /\ ~compilers[i].made
    /\ \A j \in 1..(i - 1) : compilers[j].made
    /\ compilers' = [compilers EXCEPT ![i] = NewCompiler(asdata_path, log)]
    /\ result' = Result("DataCompiler", i, <<asdata_path, log>>, "ok", <<>>)
    /\ UNCHANGED <<graph, node_info, airport_info, navaid_frequency, rc_graph,
                   calculaters>>

Becomes(w, i, op) ==
    /\ graph' = w.graph
    /\ node_info' = w.node_info
    /\ airport_info' = w.airport_info
    /\ navaid_frequency' = w.navaid_frequency
    /\ compilers' = [compilers EXCEPT ![i] = w.self]
    /\ result' = Result(op, i, <<>>, w.status, <<>>)
    /\ UNCHANGED <<rc_graph, calculaters>>

ReadNavaids(i) ==
    /\ compilers[i].made
    /\ Becomes(read_navaids(World(compilers[i])), i, "read_navaids")

ReadEdge(i) ==
    /\ compilers[i].made
    /\ Becomes(read_edge(World(compilers[i])), i, "read_edge")

ReadAirport(i) ==
    /\ compilers[i].made
    /\ Becomes(read_airport(World(compilers[i])), i, "read_airport")

Compile(i) ==
    /\ compilers[i].made
    /\ Becomes(compile(World(compilers[i])), i, "compile")

GetGraphData(i) ==
    /\ compilers[i].made
    /\ LET r == get_graph_data(compilers[i])
       IN  result' = Result("get_graph_data", i, <<>>, r.status, r.value)
    /\ UNCHANGED <<graph, node_info, airport_info, navaid_frequency, compilers,
                   rc_graph, calculaters>>

GetInfoData(i) ==
    /\ compilers[i].made
    /\ LET r == get_info_data(compilers[i])
       IN  result' = Result("get_info_data", i, <<>>, r.status, r.value)
    /\ UNCHANGED <<graph, node_info, airport_info, navaid_frequency, compilers,
                   rc_graph, calculaters>>

\* Where the data given to RouteCalculater comes from: the data handed out by
\* a DataCompiler of this process that is ready, a pickle, or ("corrupt") a
\* pickle whose info data does not have the keys airports, nodes.
Ready == \E i \in CompilerIds : get_graph_data(compilers[i]).status = "ok"

Sources == {"live", "corrupt"} \cup PickledPaths

\* RouteCalculater.__init__, lines 133-136.
RouteCalculater_init(data_ref, info_ref) ==
    IF info_ref = "corrupt"
    THEN [status |-> "DataCorruptionError", graph |-> rc_graph, info_data |-> "none"]
    ELSE [status |-> "ok", graph |-> data_ref, info_data |-> info_ref]

NewRouteCalculater(k, src) ==
    /\ ~calculaters[k].made
    /\ \A j \in 1..(k - 1) : calculaters[j].made
    /\ src = "live" => Ready
    /\ LET r == RouteCalculater_init(src, src)
       IN  /\ rc_graph' = r.graph
           /\ calculaters' = [calculaters EXCEPT ![k] =
                                 IF r.status = "ok"
                                 THEN [made |-> TRUE, info_data |-> r.info_data]
                                 ELSE @]
           /\ result' = Result("RouteCalculater", k, <<src>>, r.status, <<>>)
    /\ UNCHANGED <<graph, node_info, airport_info, navaid_frequency, compilers>>

CalculateResult(k, orig, dest, r) ==
    Result("calculate", k, <<orig, dest>>, r.status, r)

Calculate(k, orig, dest) ==
    /\ calculaters[k].made
    /\ result' = CalculateResult(k, orig, dest,
                                 calculate(GraphOf(rc_graph),
                                           InfoOf(calculaters[k].info_data),
                                           orig, dest))
    /\ UNCHANGED <<graph, node_info, airport_info, navaid_frequency, compilers,
                   rc_graph, calculaters>>

(***************************************************************************)
(* CostFunc used directly: CostFunc(orig, dest, sid_node, star_node) and   *)
(* then the instance called on an edge.  The instance is the value of the  *)
(* result of the construction.                                             *)
(***************************************************************************)
NewCostFunc(orig, dest, sid_node, star_node) ==
    /\ LET self == CostFunc_init(orig, dest, sid_node, star_node)
       IN  result' = Result("CostFunc", 0, <<orig, dest, sid_node, star_node>>,
                            self.err, self)
    /\ UNCHANGED <<graph, node_info, airport_info, navaid_frequency, compilers,
                   rc_graph, calculaters>>

CallCostFunc(prev_node, next_node, edge) ==
    /\ result.op = "CostFunc"
    /\ result.status = "ok"
    /\ result' = Result("CostFunc.__call__", 0,
                        <<result.value, prev_node, next_node, edge>>, "ok",
                        CostFunc_call(result.value, prev_node, next_node, edge))
    /\ UNCHANGED <<graph, node_info, airport_info, navaid_frequency, compilers,
                   rc_graph, calculaters>>

(***************************************************************************)
(* The inputs of the calls.                                                *)
(***************************************************************************)
\* (asdata_path, log) of the DataCompiler instances
Configs == {<<"asdata", TRUE>>, <<"asdata", FALSE>>, <<"asdata_alt", TRUE>>,
            <<"asdata_alt", FALSE>>, <<"asdata_bad", TRUE>>}

\* orig and dest of calculate: four airport codes and a waypoint code
Codes == {"ZSFZ", "ZSPD", "ZSSS", "ZSF", Geohash_hash(posDST)}

\* Endpoints and forced nodes of a CostFunc: airport codes, waypoint codes and
\* the two procedure markers.
Endpoints == {"ZSFZ", "ZSPD", Geohash_hash(posDST), Geohash_hash(posBK),
              "SID", "STAR"}

ForcedNodes == {None, Some(Geohash_hash(posDST)), Some(Geohash_hash(posBK))}

EdgeValues == {<<d, label>> : d \in {0, 8}, label \in {"SID", "STAR", "B221"}}

NextCompiler ==
    \/ \E i \in CompilerIds, cfg \in Configs : DataCompiler_init(i, cfg[1], cfg[2])
    \/ \E i \in CompilerIds : ReadNavaids(i)
    \/ \E i \in CompilerIds : ReadEdge(i)
    \/ \E i \in CompilerIds : ReadAirport(i)
    \/ \E i \in CompilerIds : Compile(i)
    \/ \E i \in CompilerIds : GetGraphData(i)
    \/ \E i \in CompilerIds : GetInfoData(i)

NextRoute ==
    \/ \E k \in CalculaterIds, src \in Sources : NewRouteCalculater(k, src)
    \/ \E k \in CalculaterIds, orig \in Codes, dest \in Codes :
           Calculate(k, orig, dest)

NextCostFunc ==
    \/ \E orig \in Endpoints, dest \in Endpoints,
          sid_node \in ForcedNodes, star_node \in ForcedNodes :
           NewCostFunc(orig, dest, sid_node, star_node)
    \/ \E prev_node \in Endpoints, next_node \in Endpoints, edge \in EdgeValues :
           CallCostFunc(prev_node, next_node, edge)

(***************************************************************************)
(* Geohash used directly: Geohash.hash(position) and then Geohash.unhash   *)
(* of the code returned.                                                   *)
(***************************************************************************)
HashPosition(position) ==
    /\ result' = Result("Geohash.hash", 0, <<position>>, "ok",
                        Geohash_hash(position))
    /\ UNCHANGED <<graph, node_info, airport_info, navaid_frequency, compilers,
                   rc_graph, calculaters>>

UnhashCode ==
    /\ result.op = "Geohash.hash"
    /\ result' = Result("Geohash.unhash", 0, <<result.args[1], result.value>>,
                        "ok", Geohash_unhash(result.value))
    /\ UNCHANGED <<graph, node_info, airport_info, navaid_frequency, compilers,
                   rc_graph, calculaters>>

NextGeohash ==
    \/ \E lat \in Latitudes, lon \in Longitudes : HashPosition(<<lat, lon>>)
    \/ UnhashCode

Next == NextCompiler \/ NextRoute \/ NextCostFunc \/ NextGeohash

\* The whole program.
Spec == Init /\ [][Next]_vars

\* The DataCompiler instances of one process.
SpecCompiler == Init /\ [][NextCompiler]_vars

\* The RouteCalculater instances of one process, on unpickled data.
SpecRoute == Init /\ [][NextRoute]_vars

\* CostFunc on its own.
SpecCostFunc == Init /\ [][NextCostFunc]_vars

\* Geohash alone
SpecGeohash == Init /\ [][NextGeohash]_vars

(***************************************************************************)
(* Properties of DataCompiler, checked under SpecCompiler.  result is the  *)
(* last call: its operation, its instance and its outcome.                 *)
(***************************************************************************)
Flags(i) == <<compilers[i].navaids_read, compilers[i].edge_read,
              compilers[i].airport_read>>

SharedData == <<graph, node_info, airport_info, navaid_frequency>>

\* C1: get_graph_data and get_info_data raise DataNotReadyError on an
\* instance whose edge phase or airport phase has not completed, and return
\* the graph / the info data (airports, nodes) when both have completed.
C1_NotReadyUnlessBothPhases ==
    /\ result.op = "get_graph_data" =>
          IF compilers[result.inst].edge_read /\ compilers[result.inst].airport_read
          THEN result.status = "ok" /\ result.value = graph
          ELSE result.status = "DataNotReadyError"
    /\ result.op = "get_info_data" =>
          IF compilers[result.inst].edge_read /\ compilers[result.inst].airport_read
          THEN result.status = "ok" /\ result.value = <<airport_info, node_info>>
          ELSE result.status = "DataNotReadyError"

\* get_graph_data refused on an instance that has completed the edge phase
\* but not the airport phase.
C1_Witness ==
    /\ result.op = "get_graph_data"
    /\ result.status = "DataNotReadyError"
    /\ compilers[result.inst].edge_read
    /\ ~compilers[result.inst].airport_read

\* the flag of the phase run by a call
PhaseFlag(op, c) ==
    CASE op = "read_navaids" -> c.navaids_read
      [] op = "read_edge" -> c.edge_read
      [] op = "read_airport" -> c.airport_read
      [] OTHER -> FALSE

\* C2: a call of read_navaids, read_edge or read_airport on an instance on
\* which that phase has completed raises AlreadyReadError and changes neither
\* the graph, the info data, the navaid frequencies nor the flags.
C2_CompletedPhaseIsAlreadyRead ==
    [][\A i \in CompilerIds :
          (result'.inst = i /\ PhaseFlag(result'.op, compilers[i]))
          => /\ result'.status = "AlreadyReadError"
             /\ UNCHANGED <<SharedData, compilers>>]_vars

\* read_airport refused on an instance that has completed all three phases.
C2_Witness ==
    /\ result.op = "read_airport"
    /\ result.status = "AlreadyReadError"
    /\ Flags(result.inst) = <<TRUE, TRUE, TRUE>>
    /\ graph # <<>>

\* C3: read_edge on an instance whose navaid phase has not completed raises
\* ReadOrderError, adds no edge and no info entry and leaves the edge phase
\* not completed.
C3_EdgeBeforeNavaidsIsReadOrder ==
    [][\A i \in CompilerIds :
          (result'.op = "read_edge" /\ result'.inst = i
           /\ ~compilers[i].navaids_read)
          => /\ result'.status = "ReadOrderError"
             /\ UNCHANGED SharedData
             /\ ~compilers'[i].edge_read]_vars

\* read_edge refused on an instance without navaids while another instance
\* has filled the graph.
C3_Witness ==
    /\ result.op = "read_edge"
    /\ result.status = "ReadOrderError"
    /\ ~compilers[result.inst].navaids_read
    /\ graph # <<>>

\* C4: no instance has the airport phase completed while its navaid phase
\* or its edge phase is not completed.
C4_AirportPhaseIsLast ==
    \A i \in CompilerIds :
        compilers[i].airport_read =>
            compilers[i].navaids_read /\ compilers[i].edge_read

(***************************************************************************)
(* Properties of RouteCalculater, checked under SpecRoute.                 *)
(***************************************************************************)
InfoOfInst(k) == InfoOf(calculaters[k].info_data)

\* C5: calculate raises NoResultError without calling find_path when orig or
\* dest is not a key of the airports of the info data, also when the code is
\* a node of the graph.
C5_UnknownAirportIsNoResult ==
    (/\ result.op = "calculate"
     /\ \/ ~DictHas(InfoOfInst(result.inst).airports, result.args[1])
        \/ ~DictHas(InfoOfInst(result.inst).airports, result.args[2]))
    => result.status = "NoResultError" /\ ~result.value.searched

\* calculate from a known airport to a code that is a node of the graph but
\* no airport.
C5_Witness ==
    /\ result.op = "calculate"
    /\ DictHas(InfoOfInst(result.inst).airports, result.args[1])
    /\ ~DictHas(InfoOfInst(result.inst).airports, result.args[2])
    /\ DictHas(GraphOf(rc_graph), result.args[2])
    /\ result.status = "NoResultError"

\* the nodes of the graph data: the ends of its edges
GraphNodes(data) ==
    UNION { {data[i][1]} \cup {data[i][2][j][1] : j \in 1..Len(data[i][2])}
          : i \in 1..Len(data) }

\* The nodes reached from the nodes of set over edges to which the cost
\* function gives a finite cost.
RECURSIVE FiniteReach(_, _, _)
FiniteReach(data, self, set) ==
    LET more == {v \in GraphNodes(data) :
                    \E u \in set :
                        /\ HasEdge(data, u, v)
                        /\ CostFunc_call(self, u, v, GetEdge(data, u, v)) # Inf}
    IN  IF more \subseteq set THEN set
        ELSE FiniteReach(data, self, set \cup more)

FinitePathExists(data, orig, dest) ==
    dest \in FiniteReach(data, CostFunc_init(orig, dest, None, None), {orig})

\* C6: for known airports, calculate raises NoResultError exactly when the
\* graph has no path from orig to dest of finite cost, and returns a
\* RouteResult of finite distance otherwise.
C6_NoResultIffNoFinitePath ==
    (/\ result.op = "calculate"
     /\ DictHas(InfoOfInst(result.inst).airports, result.args[1])
     /\ DictHas(InfoOfInst(result.inst).airports, result.args[2]))
    => IF FinitePathExists(GraphOf(rc_graph), result.args[1], result.args[2])
       THEN result.status = "ok" /\ result.value.distance # Inf
       ELSE result.status = "NoResultError"

\* C7: every STAR edge on the path of a RouteResult ends at dest.  The same
\* is stated of every path of finite cost that the search of calculate
\* finds, also when the loop over its nodes then raises KeyError.
C7_StarEdgeEndsAtDest ==
    (result.op = "calculate" /\ result.status \in {"ok", "KeyError"})
    => \A j \in 1..Len(result.value.path_edges) :
           result.value.path_edges[j][2] = "STAR"
           => result.value.path_nodes[j + 1] = result.args[2]

\* a route that arrives over a STAR edge and passes the entry fix of the
\* STAR of another airport
C7_Witness ==
    /\ result.op = "calculate"
    /\ result.status = "ok"
    /\ \E j \in 1..Len(result.value.path_edges) :
           result.value.path_edges[j][2] = "STAR"
    /\ \E j \in 1..Len(result.value.path_nodes) :
           HasEdge(GraphOf(rc_graph), result.value.path_nodes[j], "ZSSS")

\* C8: what calculate(a, b) returns on an instance that exists is changed by
\* no call: neither by a calculate nor by the construction of another
\* RouteCalculater.
C8_CalculateIsRepeatable ==
    [][\A k \in CalculaterIds, a \in Codes, b \in Codes :
          calculaters[k].made
          => calculate(GraphOf(rc_graph), InfoOfInst(k), a, b)
             = calculate(GraphOf(rc_graph'), InfoOf(calculaters'[k].info_data),
                         a, b)]_vars

(***************************************************************************)
(* display_route as the spans of the path: the labels of the maximal runs  *)
(* of edges with the same label, each after the display name of the node   *)
(* where the run starts, and the display name of the last node at the end. *)
(***************************************************************************)
DisplayName(info_data, nodename) ==
    IF DictHas(info_data.nodes, nodename)
    THEN DictGet(info_data.nodes, nodename).name
    ELSE nodename

RunStarts(edges) ==
    {j \in 1..Len(edges) : j = 1 \/ edges[j][2] # edges[j - 1][2]}

NthRunStart(edges, n) ==
    CHOOSE j \in RunStarts(edges) :
        Cardinality({x \in RunStarts(edges) : x <= j}) = n

ExpectedDisplay(info_data, nodes, edges) ==
    [p \in 1..(2 * Cardinality(RunStarts(edges)) + 1) |->
        IF p = 2 * Cardinality(RunStarts(edges)) + 1
        THEN DisplayName(info_data, nodes[Len(nodes)])
        ELSE IF p % 2 = 1
        THEN DisplayName(info_data, nodes[NthRunStart(edges, (p + 1) \div 2)])
        ELSE edges[NthRunStart(edges, p \div 2)][2]]

\* C9: the display_route of a RouteResult starts with orig, ends with dest,
\* has odd length with names and labels alternating, has no label twice in a
\* row, and has one label per maximal run of path edges with the same label,
\* between the names of the nodes where the run starts and ends.
C9_DisplayRouteIsTheSpans ==
    (result.op = "calculate" /\ result.status = "ok")
    => LET display == result.value.display_route
       IN  /\ display[1] = result.args[1]
           /\ display[Len(display)] = result.args[2]
           /\ Len(display) % 2 = 1
           /\ \A p \in 1..(Len(display) - 3) :
                  p % 2 = 0 => display[p] # display[p + 2]
           /\ display = ExpectedDisplay(InfoOfInst(result.inst),
                                        result.value.path_nodes,
                                        result.value.path_edges)

\* a route with a run of two edges of one airway, shown as one span
C9_Witness ==
    /\ result.op = "calculate"
    /\ result.status = "ok"
    /\ \E j \in 2..Len(result.value.path_edges) :
           result.value.path_edges[j][2] = result.value.path_edges[j - 1][2]
    /\ Len(result.value.display_route) < 2 * Len(result.value.path_edges) + 1

(***************************************************************************)
(* Properties of CostFunc, checked under SpecCostFunc.                     *)
(***************************************************************************)
\* the ICAO codes of the airports of the data
AirportCodes ==
    UNION { UNION { {b.icao : b \in {x \in SeqRange(f.blocks) : x.kind = "A"}}
                   : f \in SeqRange(Files(p).proc) }
          : p \in Paths }

\* C10: CostFunc(orig, dest, sid_node, star_node) raises MiscellaneousError
\* when sid_node is given and orig is no airport, or star_node is given and
\* dest is no airport, and succeeds otherwise.
C10_ForcedNodeNeedsAirport ==
    result.op = "CostFunc"
    => (result.status = "MiscellaneousError"
        <=> \/ result.args[1] \notin AirportCodes /\ result.args[3] # None
            \/ result.args[2] \notin AirportCodes /\ result.args[4] # None)

\* C11: once an instance has completed all three phases, no later call
\* changes the graph or the info data (airports, nodes) it hands out.
C11_CompiledDataIsFrozen ==
    [][(\E i \in CompilerIds : Flags(i) = <<TRUE, TRUE, TRUE>>)
       => UNCHANGED <<graph, node_info, airport_info>>]_vars

\* C12: the cost of an edge (distance, label) from prev_node to next_node is
\* infinite if label is SID, an exit is forced and next_node is not it;
\* infinite if label is STAR and dest is no airport, or next_node is not
\* dest, or an entry is forced and prev_node is not it; and the distance of
\* the edge in every other case.
C12_CostIsDistanceOrInfinite ==
    result.op = "CostFunc.__call__"
    => LET self      == result.args[1]
           prev_node == result.args[2]
           next_node == result.args[3]
           distance  == result.args[4][1]
           label     == result.args[4][2]
           barred    ==
               \/ /\ label = "SID"
                  /\ self.sid_node # None
                  /\ next_node # self.sid_node[1]
               \/ /\ label = "STAR"
                  /\ \/ self.dest \notin AirportCodes
                     \/ next_node # self.dest
                     \/ self.star_node # None /\ prev_node # self.star_node[1]
       IN  result.value = IF barred THEN Inf ELSE distance

(***************************************************************************)
(* The loop of calculate pairs path.nodes[i] with path.edges[i], the edge  *)
(* that leaves the node; the last node has none.                           *)
(***************************************************************************)
\* the names in display_route
DisplayedNames(display) == {display[p] : p \in {q \in 1..Len(display) : q % 2 = 1}}

\* the label of the edge that leaves node i of the path, None after the last
LabelLeaving(edges, i) == IF i <= Len(edges) THEN Some(edges[i][2]) ELSE None

\* the label emitted last when the loop comes to node i
LabelEmittedBefore(edges, i) ==
    IF i = 1 THEN Some("") ELSE LabelLeaving(edges, i - 1)

\* C13 as amended: the display name of a node of the path is appended
\* exactly when the label of the edge that leaves the node (none at the last
\* node) differs from the label emitted last, and a name that is not the
\* last is followed by the label of the edge that leaves its node.
C13_NameWhenLeavingLabelChanges ==
    (result.op = "calculate" /\ result.status = "ok")
    => LET nodes   == result.value.path_nodes
           edges   == result.value.path_edges
           display == result.value.display_route
           info    == InfoOfInst(result.inst)
       IN  /\ \A i \in 1..Len(nodes) :
                  DisplayName(info, nodes[i]) \in DisplayedNames(display)
                  <=> LabelLeaving(edges, i) # LabelEmittedBefore(edges, i)
           /\ \A p \in 1..(Len(display) - 1) :
                  p % 2 = 1
                  => \E i \in 1..Len(edges) :
                         /\ DisplayName(info, nodes[i]) = display[p]
                         /\ edges[i][2] = display[p + 1]

\* a route on which a node reached over a new label is left out and a node
\* reached over the label emitted last is shown
C13_Witness ==
    /\ result.op = "calculate"
    /\ result.status = "ok"
    /\ \E i \in 3..Len(result.value.path_edges) :
           /\ result.value.path_edges[i - 1][2] = result.value.path_edges[i - 2][2]
           /\ result.value.path_edges[i][2] # result.value.path_edges[i - 1][2]
           /\ DisplayName(InfoOfInst(result.inst), result.value.path_nodes[i])
                  \in DisplayedNames(result.value.display_route)

\* C13 as stated: the display name of a node is appended only when the label
\* of the edge used to reach the node differs from the label emitted before.
C13_NameOnlyWhenReachingLabelChanges ==
    (result.op = "calculate" /\ result.status = "ok")
    => \A i \in 3..Len(result.value.path_nodes) :
           DisplayName(InfoOfInst(result.inst), result.value.path_nodes[i])
               \in DisplayedNames(result.value.display_route)
           => result.value.path_edges[i - 1][2] # result.value.path_edges[i - 2][2]

(***************************************************************************)
(* Properties of Geohash, checked under SpecGeohash.                       *)
(***************************************************************************)
\* the side of the cell of a code of Precision characters, in ticks
CellTicks == (2 * LatMax) \div 2^((5 * Precision) \div 2)

\* C14: Geohash.hash of a valid position is a code of 9 characters, and
\* Geohash.unhash of that code lies in the cell of the position: it has the
\* same code and is less than the side of a cell away from the position in
\* latitude and in longitude.
C14_RoundTripStaysInCell ==
    /\ result.op = "Geohash.hash" => Len(result.value) = 9
    /\ result.op = "Geohash.unhash"
       => /\ Geohash_hash(result.value) = result.args[2]
          /\ Abs(result.value[1] - result.args[1][1]) < CellTicks
          /\ Abs(result.value[2] - result.args[1][2]) < CellTicks

\* the round trip of a position that is not the centre of its cell
C14_Witness ==
    /\ result.op = "Geohash.unhash"
    /\ result.value # result.args[1]
    /\ result.args[1][1] # result.args[1][2]

\* the least of two costs
CostMin(a, b) == IF CostLess(b, a) THEN b ELSE a

\* the least cost at which v is reached from a node of cost dist[u] over one
\* edge, or dist[v] if that is less
RECURSIVE LeastOver(_, _, _, _, _)
LeastOver(data, self, dist, v, todo) ==
    IF todo = {} THEN dist[v]
    ELSE LET u == CHOOSE x \in todo : TRUE
             rest == LeastOver(data, self, dist, v, todo \ {u})
         IN  IF HasEdge(data, u, v)
             THEN CostMin(rest,
                          CostAdd(dist[u],
                                  CostFunc_call(self, u, v, GetEdge(data, u, v))))
             ELSE rest

\* the least costs of the paths of at most n more edges
RECURSIVE LeastCosts(_, _, _, _)
LeastCosts(data, self, dist, n) ==
    IF n = 0 THEN dist
    ELSE LeastCosts(data, self,
                    [v \in DOMAIN dist |->
                        LeastOver(data, self, dist, v, DOMAIN dist)],
                    n - 1)

\* the least sum of distances of a path from orig to dest of finite cost,
\* Inf if there is none
LeastDistance(data, orig, dest) ==
    LeastCosts(data, CostFunc_init(orig, dest, None, None),
               [v \in GraphNodes(data) \cup {orig, dest} |->
                   IF v = orig THEN 0 ELSE Inf],
               Cardinality(GraphNodes(data)))[dest]

RECURSIVE SumOfDistances(_)
SumOfDistances(edges) ==
    IF Len(edges) = 0 THEN 0 ELSE edges[1][1] + SumOfDistances(Tail(edges))

\* C15: the distance of a RouteResult is the sum of the distances of the
\* edges of the path, the path is made of edges of the graph from orig to
\* dest, and no path from orig to dest of finite cost has a smaller sum.
C15_DistanceIsLeastSum ==
    (result.op = "calculate" /\ result.status = "ok")
    => LET nodes == result.value.path_nodes
           edges == result.value.path_edges
           data  == GraphOf(rc_graph)
       IN  /\ result.value.distance = SumOfDistances(edges)
           /\ Len(nodes) = Len(edges) + 1
           /\ nodes[1] = result.args[1]
           /\ nodes[Len(nodes)] = result.args[2]
           /\ \A j \in 1..Len(edges) :
                  /\ HasEdge(data, nodes[j], nodes[j + 1])
                  /\ GetEdge(data, nodes[j], nodes[j + 1]) = edges[j]
           /\ result.value.distance
                  = LeastDistance(data, result.args[1], result.args[2])

\* a route of a graph in which one longer edge joins two nodes that the
\* route joins over two edges
C15_Witness ==
    /\ result.op = "calculate"
    /\ result.status = "ok"
    /\ \E j \in 1..(Len(result.value.path_nodes) - 2) :
           /\ HasEdge(GraphOf(rc_graph), result.value.path_nodes[j],
                      result.value.path_nodes[j + 2])
           /\ GetEdge(GraphOf(rc_graph), result.value.path_nodes[j],
                      result.value.path_nodes[j + 2])[1]
                  > result.value.path_edges[j][1]
                    + result.value.path_edges[j + 1][1]

(***************************************************************************)
(* Properties of read_airport, checked under SpecCompiler in the state     *)
(* that a successful read_airport (or compile) of an instance leaves.      *)
(***************************************************************************)
AirportsJustRead ==
    result.op \in {"read_airport", "compile"} /\ result.status = "ok"

\* the files of proc/ of the instance of the last call that name an airport
AirportFiles ==
    {f \in SeqRange(Files(compilers[result.inst].asdata_path).proc) :
        /\ endswith(f.filename, ".txt")
        /\ \E b \in SeqRange(f.blocks) : b.kind = "A"}

IcaoOf(f) == (CHOOSE b \in SeqRange(f.blocks) : b.kind = "A").icao

PositionOf(f) == (CHOOSE b \in SeqRange(f.blocks) : b.kind = "A").pos

IsNodeRow(r) == r.type \notin invaild_procedure_type \cup {"SID", "STAR"}

\* the rows of a block that remain as its nodes
Remaining(b) == SelectSeq(b.rows, IsNodeRow)

\* the exit node of a SID block, the entry node of a STAR block
KeyNode(b) ==
    IF b.kind = "SID" THEN Remaining(b)[Len(Remaining(b))] ELSE Remaining(b)[1]

\* the blocks of a kind of a file that have a node, in file order, and those
\* of them of one exit (entry) name
ValidBlocks(f, kind) ==
    LET Valid(b) == b.kind = kind /\ Len(Remaining(b)) > 0
    IN  SelectSeq(f.blocks, Valid)

GroupBlocks(f, kind, name) ==
    LET InGroup(b) == KeyNode(b).name = name
    IN  SelectSeq(ValidBlocks(f, kind), InGroup)

GroupNames(f, kind) == {KeyNode(b).name : b \in SeqRange(ValidBlocks(f, kind))}

\* name, runway and the names and positions of the nodes: of a block, and of
\* a procedure stored in the info data
BlockSummary(b) ==
    <<b.name, b.runway,
      [j \in 1..Len(Remaining(b)) |->
          <<Remaining(b)[j].name, Remaining(b)[j].pos>>]>>

StoredSummary(proc) ==
    <<proc.name, proc.runway,
      [j \in 1..Len(proc.nodes) |->
          <<proc.nodes[j].name, proc.nodes[j].position>>]>>

ProcedureMap(f, kind) ==
    IF kind = "SID" THEN DictGet(airport_info, IcaoOf(f)).sid
    ELSE DictGet(airport_info, IcaoOf(f)).star

\* the edges of a kind between the airport of f and the codes of the key
\* nodes of the blocks of a group
GroupEdges(f, kind, name) ==
    {code \in {Geohash_hash(KeyNode(b).pos) :
                  b \in SeqRange(GroupBlocks(f, kind, name))} :
        IF kind = "SID"
        THEN HasEdge(graph, IcaoOf(f), code)
             /\ GetEdge(graph, IcaoOf(f), code)[2] = "SID"
        ELSE HasEdge(graph, code, IcaoOf(f))
             /\ GetEdge(graph, code, IcaoOf(f))[2] = "STAR"}

\* C16: after read_airport, for every airport file, the SID (STAR) map of the
\* airport has exactly the exit (entry) names of the blocks that keep a
\* node; under each name it lists the blocks of that name in file order; and
\* each group has one SID edge airport -> code (STAR edge code -> airport).
C16_ProceduresGroupedByKeyNode ==
    AirportsJustRead
    => \A f \in AirportFiles : \A kind \in {"SID", "STAR"} :
           /\ DictHas(airport_info, IcaoOf(f))
           /\ SeqRange(DictKeys(ProcedureMap(f, kind))) = GroupNames(f, kind)
           /\ \A name \in GroupNames(f, kind) :
                  /\ [j \in 1..Len(DictGet(ProcedureMap(f, kind), name)) |->
                         StoredSummary(DictGet(ProcedureMap(f, kind), name)[j])]
                     = [j \in 1..Len(GroupBlocks(f, kind, name)) |->
                           BlockSummary(GroupBlocks(f, kind, name)[j])]
                  /\ Cardinality(GroupEdges(f, kind, name)) = 1

\* an airport read with two SID blocks of one exit name
C16_Witness ==
    /\ AirportsJustRead
    /\ \E f \in AirportFiles : \E name \in GroupNames(f, "SID") :
           /\ Len(GroupBlocks(f, "SID", name)) = 2
           /\ Len(DictGet(ProcedureMap(f, "SID"), name)) = 2

\* C17: for every airport of the info data and every SID procedure stored in
\* its SID map the graph has a SID edge from the airport to the code of the
\* last node of the procedure, and for every STAR procedure stored in its
\* STAR map a STAR edge from the code of the first node to the airport.
C17_CatalogAgreesWithGraph ==
    \A a \in 1..Len(airport_info) :
        LET icao == airport_info[a][1]
            sid  == airport_info[a][2].sid
            star == airport_info[a][2].star
        IN  /\ \A g \in 1..Len(sid) : \A j \in 1..Len(sid[g][2]) :
                   LET nodes == sid[g][2][j].nodes
                       code  == Geohash_hash(nodes[Len(nodes)].position)
                   IN  /\ HasEdge(graph, icao, code)
                       /\ GetEdge(graph, icao, code)[2] = "SID"
            /\ \A g \in 1..Len(star) : \A j \in 1..Len(star[g][2]) :
                   LET nodes == star[g][2][j].nodes
                       code  == Geohash_hash(nodes[1].position)
                   IN  /\ HasEdge(graph, code, icao)
                       /\ GetEdge(graph, code, icao)[2] = "STAR"

\* the frequency stored for a node of a path: that of its code in the nodes
\* of the info data, none for an airport
StoredFrequency(info_data, nodename) ==
    IF DictHas(info_data.nodes, nodename)
    THEN DictGet(info_data.nodes, nodename).frequency
    ELSE None

AtsRows(i) == Files(compilers[i].asdata_path).ats

\* the segment rows that name the ordered pair of codes (u, v)
RowsNaming(rows, u, v) ==
    {i \in 1..Len(rows) : /\ rows[i].type = "S"
                          /\ Geohash_hash(rows[i].spos) = u
                          /\ Geohash_hash(rows[i].epos) = v}

Latest(set) == CHOOSE i \in set : \A j \in set : j <= i

\* the name of the most recent airway header before row i
AirwayOf(rows, i) == rows[Latest({j \in 1..(i - 1) : rows[j].type = "A"})].name

\* no key occurs twice in the dict d
KeysOnce(d) == \A i, j \in 1..Len(d) : d[i][1] = d[j][1] => i = j

\* C19: when read_edge succeeds, the graph has at most one edge per ordered
\* pair of codes; for a pair named by a segment row the edge is (distance,
\* airway) of the last row naming it, under the most recent airway header;
\* for any other pair, the reverse of a named pair included, the graph has
\* exactly the edge it had before the call or none: read_edge adds no
\* reverse edge.
C19_GraphHoldsLastRowPerPair ==
    [][ (result'.op = "read_edge" /\ result'.status = "ok")
        => LET rows == AtsRows(result'.inst)
           IN  /\ KeysOnce(graph')
               /\ \A i \in 1..Len(graph') : KeysOnce(graph'[i][2])
               /\ \A u, v \in GraphNodes(graph') :
                      IF RowsNaming(rows, u, v) # {}
                      THEN /\ HasEdge(graph', u, v)
                           /\ GetEdge(graph', u, v)
                                = << rows[Latest(RowsNaming(rows, u, v))].dist,
                                     AirwayOf(rows, Latest(RowsNaming(rows, u, v))) >>
                      ELSE /\ HasEdge(graph', u, v) <=> HasEdge(graph, u, v)
                           /\ HasEdge(graph', u, v)
                                => GetEdge(graph', u, v) = GetEdge(graph, u, v)
      ]_vars

\* read_edge of asdata_alt succeeded: the segment DST -> NEWPT listed under
\* W0 and again under W1 is stored once, as of W1, and NEWPT -> DST is not
\* an edge.
C19_Witness ==
    /\ result.op = "read_edge"
    /\ result.status = "ok"
    /\ compilers[result.inst].asdata_path = "asdata_alt"
    /\ Cardinality(RowsNaming(AtsRows(result.inst), Geohash_hash(posDST),
                              Geohash_hash(posNEWPT))) = 2
    /\ GetEdge(graph, Geohash_hash(posDST), Geohash_hash(posNEWPT)) = <<4, "W1">>
    /\ ~HasEdge(graph, Geohash_hash(posNEWPT), Geohash_hash(posDST))

(***************************************************************************)
(* Properties of the filter of read_airport, checked under SpecCompiler on *)
(* the step of a successful read_airport of an instance.                   *)
(***************************************************************************)
\* the type codes of the leg rows that have no fix
LegTypesWithoutFix == {"CA", "CD", "CI", "CR", "VA", "VD", "VI", "VM", "VR"}

IsProcBlock(b) == b.kind \in {"SID", "STAR"}

\* a SID/STAR block without its rows of these types
WithoutLegRows(b) ==
    LET HasFix(r) == r.type \notin LegTypesWithoutFix
    IN  IF IsProcBlock(b) THEN [b EXCEPT !.rows = SelectSeq(b.rows, HasFix)]
        ELSE b

\* a SID/STAR block all of whose rows are of these types
OnlyLegRows(b) ==
    /\ IsProcBlock(b)
    /\ \A r \in SeqRange(b.rows) : r.type \in LegTypesWithoutFix

\* the files of proc/ without the rows of these types and without the
\* SID/STAR blocks that have no other row
WithoutSkipped(files) ==
    LET Kept(b) == ~OnlyLegRows(b)
    IN  [i \in 1..Len(files) |->
            [files[i] EXCEPT !.blocks =
                LET kept == SelectSeq(files[i].blocks, Kept)
                IN  [j \in 1..Len(kept) |-> WithoutLegRows(kept[j])]]]

\* the names of the nodes of the procedures of a SID/STAR map
StoredNodeNames(group) ==
    UNION { UNION { {DictGet(group, name)[j].nodes[n].name :
                        n \in 1..Len(DictGet(group, name)[j].nodes)}
                  : j \in 1..Len(DictGet(group, name)) }
          : name \in SeqRange(DictKeys(group)) }

\* the names of the procedures of a SID/STAR map
StoredProcedureNames(group) ==
    UNION { {DictGet(group, name)[j].name : j \in 1..Len(DictGet(group, name))}
          : name \in SeqRange(DictKeys(group)) }

\* C20: when read_airport succeeds, graph, node info and airport info are
\* those that the same call leaves when the node rows of type CA, CD, CI,
\* CR, VA, VD, VI, VM, VR and the SID/STAR blocks with no other node row are
\* taken out of the files: such a row is no node of a stored procedure, and
\* such a block adds no edge, no node entry, and no procedure or key to the
\* SID/STAR map of its airport.
C20_LegRowsAndEmptyBlocksLeaveNoTrace ==
    [][ (result'.op = "read_airport" /\ result'.status = "ok")
        => LET files == Files(compilers[result'.inst].asdata_path).proc
               clean == airport_loop(WithoutSkipped(files), 1, navaid_frequency,
                                     [graph |-> graph, node_info |-> node_info,
                                      airport_info |-> airport_info])
           IN  /\ clean.err = "ok"
               /\ graph' = clean.graph
               /\ node_info' = clean.node_info
               /\ airport_info' = clean.airport_info
               /\ \A f \in SeqRange(files) :
                      (endswith(f.filename, ".txt")
                       /\ \E b \in SeqRange(f.blocks) : b.kind = "A")
                      => LET icao == (CHOOSE b \in SeqRange(f.blocks) : b.kind = "A").icao
                             sid  == DictGet(airport_info', icao).sid
                             star == DictGet(airport_info', icao).star
                         IN  \A b \in SeqRange(f.blocks) :
                               /\ OnlyLegRows(b)
                                  => b.name \notin StoredProcedureNames(sid)
                                                   \cup StoredProcedureNames(star)
                               /\ IsProcBlock(b)
                                  => \A r \in SeqRange(b.rows) :
                                       (r.type \in LegTypesWithoutFix
                                        /\ \A q \in SeqRange(b.rows) :
                                             q.type \notin LegTypesWithoutFix
                                             => q.name # r.name)
                                       => r.name \notin StoredNodeNames(sid)
                                                        \cup StoredNodeNames(star)
      ]_vars

\* read_airport of asdata succeeded: ZSFZ.txt has the SID VEC1D with a VM
\* row only and the SID DST1D with a CA row before its fix; the SID map of
\* ZSFZ has the key DST alone, with DST1D stored with one node.
C20_Witness ==
    /\ result.op = "read_airport"
    /\ result.status = "ok"
    /\ compilers[result.inst].asdata_path = "asdata"
    /\ \E f \in SeqRange(Files("asdata").proc) :
           /\ \E b \in SeqRange(f.blocks) : OnlyLegRows(b) /\ Len(b.rows) > 0
           /\ \E b \in SeqRange(f.blocks) :
                  /\ IsProcBlock(b)
                  /\ ~OnlyLegRows(b)
                  /\ \E r \in SeqRange(b.rows) : r.type \in LegTypesWithoutFix
    /\ SeqRange(DictKeys(DictGet(airport_info, "ZSFZ").sid)) = {"DST"}
    /\ Len(DictGet(DictGet(airport_info, "ZSFZ").sid, "DST")[1].nodes) = 1

(***************************************************************************)
(* Properties of the errors of read_airport and read_edge, checked under   *)
(* SpecCompiler in the state that the call leaves.                         *)
(***************************************************************************)
\* file f has a SID/STAR block with no airport header block before it in f
HeaderlessBlock(f) ==
    \E i \in 1..Len(f.blocks) :
        /\ f.blocks[i].kind \in {"SID", "STAR"}
        /\ \A j \in 1..(i - 1) : f.blocks[j].kind # "A"

\* the .txt files of proc/ of instance i, in the order of the walk
ProcFiles(i) ==
    LET IsTxt(f) == endswith(f.filename, ".txt")
    IN  SelectSeq(Files(compilers[i].asdata_path).proc, IsTxt)

\* C21: a read_airport that passed the AlreadyRead test fails with
\* DataCorruptionError exactly when some .txt file of proc/ has a SID or
\* STAR block before any airport header block of that same file, whatever
\* headers the files before it have.
C21_ProcBeforeHeaderIsCorruption ==
    (result.op = "read_airport" /\ result.status # "AlreadyReadError")
    => (result.status = "DataCorruptionError"
        <=> \E n \in 1..Len(ProcFiles(result.inst)) :
                HeaderlessBlock(ProcFiles(result.inst)[n]))

\* read_airport failed on a file whose SID block comes before its header,
\* after a file with a header
C21_Witness ==
    /\ result.op = "read_airport"
    /\ result.status = "DataCorruptionError"
    /\ \E n \in 2..Len(ProcFiles(result.inst)) :
           /\ HeaderlessBlock(ProcFiles(result.inst)[n])
           /\ \A m \in 1..(n - 1) :
                  /\ ~HeaderlessBlock(ProcFiles(result.inst)[m])
                  /\ \E b \in SeqRange(ProcFiles(result.inst)[m].blocks) :
                         b.kind = "A"

\* the rows of ATS.txt have a segment row with no airway header row before
HeaderlessSegment(rows) ==
    \E i \in 1..Len(rows) :
        /\ rows[i].type = "S"
        /\ \A j \in 1..(i - 1) : rows[j].type # "A"

\* C22: a read_edge that passed the AlreadyRead and ReadOrder tests fails
\* with DataCorruptionError exactly when ATS.txt has a segment row before
\* any airway header row, and then leaves graph and node info as they were;
\* when it succeeds, the edge of every segment row carries the name of the
\* most recent header before the last row that names its pair of codes.
C22_SegmentBeforeHeaderIsCorruption ==
    [][ (result'.op = "read_edge"
         /\ result'.status \notin {"AlreadyReadError", "ReadOrderError"})
        => LET rows == AtsRows(result'.inst)
           IN  /\ result'.status = "DataCorruptionError"
                      <=> HeaderlessSegment(rows)
               /\ result'.status = "DataCorruptionError"
                      => /\ graph' = graph
                         /\ node_info' = node_info
                         /\ ~compilers'[result'.inst].edge_read
               /\ result'.status = "ok"
                      => \A i \in 1..Len(rows) :
                             rows[i].type = "S"
                             => LET u == Geohash_hash(rows[i].spos)
                                    v == Geohash_hash(rows[i].epos)
                                IN  /\ HasEdge(graph', u, v)
                                    /\ GetEdge(graph', u, v)[2]
                                         = AirwayOf(rows, Latest(RowsNaming(rows, u, v)))
      ]_vars

\* read_edge of asdata_bad failed on its first row, a segment DST -> LATUX,
\* and the graph has no such edge
C22_Witness ==
    /\ result.op = "read_edge"
    /\ result.status = "DataCorruptionError"
    /\ HeaderlessSegment(AtsRows(result.inst))
    /\ ~HasEdge(graph, Geohash_hash(posDST), Geohash_hash(posLATUX))

\* C23: when read_airport succeeds, every entry that node info had before
\* the call is still there with the same name and frequency.
C23_NodeEntriesArePreserved ==
    [][ (result'.op = "read_airport" /\ result'.status = "ok")
        => \A i \in 1..Len(node_info) :
               /\ DictHas(node_info', node_info[i][1])
               /\ DictGet(node_info', node_info[i][1]) = node_info[i][2]
      ]_vars

\* the world that a phase of instance i leaves when called in the present
\* state with the log flag of the instance set
WithLog(op, i) ==
    LET w == World([compilers[i] EXCEPT !.log = TRUE])
    IN  CASE op = "read_navaids" -> read_navaids(w)
          [] op = "read_edge" -> read_edge(w)
          [] op = "read_airport" -> read_airport(w)
          [] OTHER -> compile(w)

\* C24: a phase of an instance ends as it would with log = True: the same
\* success or error, the same graph, node info, airport info and navaid
\* frequencies, and the same phases completed.
C24_LogOnlyPrints ==
    [][ result'.op \in {"read_navaids", "read_edge", "read_airport", "compile"}
        => LET w == WithLog(result'.op, result'.inst)
           IN  /\ result'.status = w.status
               /\ graph' = w.graph
               /\ node_info' = w.node_info
               /\ airport_info' = w.airport_info
               /\ navaid_frequency' = w.navaid_frequency
               /\ compilers'[result'.inst].navaids_read = w.self.navaids_read
               /\ compilers'[result'.inst].edge_read = w.self.edge_read
               /\ compilers'[result'.inst].airport_read = w.self.airport_read
      ]_vars

\* a node at which the loop of calculate raises KeyError 'Unexpected node'
\* (lines 226 and 235): of length 4 and neither orig, dest nor the marker
\* STAR, or of another length and neither the marker SID nor of length 9
UnexpectedNode(nodename, orig, dest) ==
    IF Len(nodename) = 4 THEN nodename \notin {orig, dest, "STAR"}
    ELSE nodename # "SID" /\ Len(nodename) # 9

\* C25: when calculate(orig, dest) with orig # dest finds a path of finite
\* cost, the path leaves orig by a SID edge, enters dest by a STAR edge, has
\* no airport between them, and has no node at which the loop over its
\* nodes raises 'Unexpected node'.
C25_RouteIsSidWaypointsStar ==
    (/\ result.op = "calculate"
     /\ result.status \in {"ok", "KeyError"}
     /\ result.args[1] # result.args[2])
    => LET nodes == result.value.path_nodes
           edges == result.value.path_edges
       IN  /\ Len(nodes) >= 2
           /\ nodes[1] = result.args[1]
           /\ nodes[Len(nodes)] = result.args[2]
           /\ edges[1][2] = "SID"
           /\ edges[Len(nodes) - 1][2] = "STAR"
           /\ \A j \in 2..(Len(nodes) - 1) : nodes[j] \notin AirportCodes
           /\ \A j \in 1..Len(nodes) :
                  ~UnexpectedNode(nodes[j], result.args[1], result.args[2])

\* the world that the phase op of instance i leaves when called in the
\* present state
PhaseAgain(op, i) ==
    CASE op = "read_navaids" -> read_navaids(World(compilers[i]))
      [] op = "read_edge" -> read_edge(World(compilers[i]))
      [] OTHER -> read_airport(World(compilers[i]))

\* C26: after a phase of an instance stopped with an error of its input
\* (ValueError, DataCorruptionError), the phase is not marked completed,
\* get_graph_data and get_info_data of the instance raise DataNotReadyError,
\* and the same phase called again is not rejected with AlreadyReadError.
C26_FailedPhaseIsNotCompleted ==
    (/\ result.op \in {"read_navaids", "read_edge", "read_airport"}
     /\ result.status \in {"ValueError", "DataCorruptionError"})
    => /\ ~PhaseFlag(result.op, compilers[result.inst])
       /\ get_graph_data(compilers[result.inst]).status = "DataNotReadyError"
       /\ get_info_data(compilers[result.inst]).status = "DataNotReadyError"
       /\ PhaseAgain(result.op, result.inst).status # "AlreadyReadError"

\* read_airport of asdata_bad stopped at its second file, after the airport
\* of the first file was registered
C26_Witness ==
    /\ result.op = "read_airport"
    /\ result.status = "DataCorruptionError"
    /\ DictHas(airport_info, "ZSAM")
    /\ ~DictHas(airport_info, "ZSXX")
    /\ ~compilers[result.inst].airport_read

====
